---- MODULE Spec2Model ----
(***************************************************************************)
(* State-machine model of CannonBall (CannonWarfare/Sources/CannonBall.cpp) *)
(*                                                                         *)
(* Units.  The code computes in float; the model computes in fixed point:  *)
(*   length    1 unit = 0.01 pixel   (so the bounce offset 0.01f is 1)     *)
(*   time      1 tick = 0.1 second   (so the landing burst 0.1f is 1)      *)
(*   velocity  units per tick        (so the rest speed 10 px/s is 100)    *)
(*   accel.    units per tick^2      (98 px/s^2 is 98)                     *)
(*   trajectoryAlpha: 1.0 is 10 (it fades by deltaTime, in ticks)          *)
(* Screen coordinates: y grows downwards, the ground is at large y.        *)
(***************************************************************************)
EXTENDS Integers, Sequences, FiniteSets, TLC

\* ------------------------------------------------------------------ bounds
\* Largest frame time the host passes to Update, in ticks.
MaxDt == 2
\* Update is called until the frame times add up to MaxTime ticks.
MaxTime == 7
\* The wall clock is observed up to MaxClock ticks after construction.
MaxClock == 1

DeltaTimes == 0..MaxDt

\* -------------------------------------------------- constants of the program
\* PhysicsConstants.h (not in src/): gravity, pixels per metre.
GRAVITY == 98
PIXEL_SCALE == 100
\* CannonBall.h (not in src/): the fields' initialisers.
radius == 1
ElasticityNum == 1
ElasticityDen == 2
destroyDuration == 4
InactiveTimer == -1
OpaqueAlpha == 255
AlphaOne == 10
\* Constructor arguments (CannonBall.cpp:11).
groundHeight == 400
predictedAirTime == 20
Launches ==
    { [position |-> [x |-> 0, y |-> 202], velocity |-> [x |-> 10, y |-> 0]],
      [position |-> [x |-> 0, y |-> 6], velocity |-> [x |-> 20, y |-> -98]] }
\* CannonBall.cpp:77 (10 px/s), :79 (0.01 px), :104 (0.1 s).
RestSpeed == 100
BounceOffset == 1
LandingDuration == 1

Zero2 == [x |-> 0, y |-> 0]

VARIABLES
    position, velocity, acceleration,   \* transform
    startPos, startV,                   \* trajectory start, set by the constructor
    airTime, endPos, endV, controlPoint,\* trajectory snapshot
    landed,
    showTrajectory, trajectoryAlpha,
    destroyTimer, colorA,               \* color.a
    now,                                \* system clock, ticks since construction
    elapsed,                            \* deltaTime passed to Update since construction
    sinceDestroy,                       \* deltaTime passed to Update since the last Destroy (-1: none)
    spawners,                           \* CreateSpawner requests issued by the last call
    last,                               \* the last call on the projectile and what it did
    twin                                \* a second projectile, constructed identically

transformVars == <<position, velocity, acceleration>>
snapshot == <<airTime, endPos, endV, controlPoint>>
vars == <<position, velocity, acceleration, startPos, startV, airTime, endPos, endV,
          controlPoint, landed, showTrajectory, trajectoryAlpha, destroyTimer, colorA,
          elapsed, sinceDestroy, now, spawners, last, twin>>

\* ------------------------------------------------------------------ helpers
\* C++ integer/float truncation toward zero.
TruncDiv(a, b) == IF a >= 0 THEN a \div b ELSE -((-a) \div b)

\* Float rounding to the nearest representable value, here the nearest unit.
RoundDiv(a, b) ==
    IF a >= 0 THEN (2 * a + b) \div (2 * b) ELSE -((2 * (-a) + b) \div (2 * b))

Abs(a) == IF a >= 0 THEN a ELSE -a

Sign(a) == IF a > 0 THEN 1 ELSE IF a < 0 THEN -1 ELSE 0

\* Maths::clamp(value, min, max)
clamp(v, lo, hi) == IF v < lo THEN lo ELSE IF v > hi THEN hi ELSE v

\* Vector2::GetLength(), squared.
LengthSq(v) == v.x * v.x + v.y * v.y

\* groundHeight - radius * PIXEL_SCALE
Threshold == groundHeight - radius * PIXEL_SCALE

\* Line 59: the projectile is above the ground.
AboveGround(p) == p.y < Threshold

\* Line 67: the projectile is under the ground.
UnderGround(p) == p.y > Threshold

\* Line 77: velocity.GetLength() > 10
Fast(v) == LengthSq(v) > RestSpeed * RestSpeed

\* Transform2D::Update(deltaTime), semi-implicit Euler:
\* velocity += acceleration * dt; position += velocity * dt.
TransformUpdate(p, v, a, dt) ==
    LET nv == [x |-> v.x + a.x * dt, y |-> v.y + a.y * dt]
    IN  [position |-> [x |-> p.x + nv.x * dt, y |-> p.y + nv.y * dt],
         velocity |-> nv]

\* Maths::LineIntersection(p1, d1, p2, d2): the point p1 + t*d1 that lies on the
\* line through p2 along d2. Parallel lines divide by zero: no finite point.
LineIntersection(p1, d1, p2, d2) ==
    LET det == d1.x * d2.y - d1.y * d2.x
        num == (p2.x - p1.x) * d2.y - (p2.y - p1.y) * d2.x
    IN  IF det = 0
        THEN [x |-> 0, y |-> 0, finite |-> FALSE]
        ELSE [x |-> p1.x + TruncDiv(d1.x * num, det),
              y |-> p1.y + TruncDiv(d1.y * num, det),
              finite |-> TRUE]

\* CannonBall::UpdateTrajectory(), lines 43-50, at transform (p, v) and clock t.
UpdateTrajectory(p, v, t) ==
    [airTime      |-> t,
     endPos       |-> p,
     endV         |-> v,
     controlPoint |-> LineIntersection(startPos, startV, p, [x |-> -v.x, y |-> -v.y])]

\* The snapshot as it is stored.
CurrentTrajectory ==
    [airTime |-> airTime, endPos |-> endPos, endV |-> endV, controlPoint |-> controlPoint]

\* Lines 55-56: trajectoryAlpha after the fade step.
FadeNoClamp(alpha, show, dt) ==
    IF show /\ alpha < AlphaOne THEN alpha + dt
    ELSE IF ~show /\ alpha > 0 THEN alpha - dt
    ELSE alpha

FadeUpOnly(alpha, show, dt) ==
    IF show /\ alpha < AlphaOne THEN clamp(alpha + dt, 0, AlphaOne)
    ELSE alpha

FadeTrajectoryAlpha(alpha, show, dt) ==
    IF show /\ alpha < AlphaOne THEN clamp(alpha + dt, 0, AlphaOne)
    ELSE IF ~show /\ alpha > 0 THEN clamp(alpha - dt, 0, AlphaOne)
    ELSE alpha

\* Line 63: in the air, UpdateTrajectory is called only while not landed.
AirborneCallsAlways(isLanded) == TRUE

AirborneCallsUpdateTrajectory(isLanded) == ~isLanded

\* Lines 70-74: under the ground, UpdateTrajectory is called on first contact.
ContactCallsUpdateTrajectory(isLanded) == ~isLanded

\* Vector2::SetLength(GetLength() * num/den): the vector rescaled, direction kept.
ScaleLength(v, num, den) ==
    [x |-> RoundDiv(v.x * num, den), y |-> RoundDiv(v.y * num, den)]

\* Lines 79-81: the bounce.
BounceNoFlip(p, v) ==
    [position |-> [x |-> p.x, y |-> Threshold - BounceOffset],
     velocity |-> ScaleLength(v, ElasticityNum, ElasticityDen)]

Bounce(p, v) ==
    [position |-> [x |-> p.x, y |-> Threshold - BounceOffset],
     velocity |-> ScaleLength([x |-> v.x, y |-> v.y * (-1)], ElasticityNum, ElasticityDen)]

\* Lines 87-89: the rest.
RestNoSnap(p) ==
    [position |-> p, velocity |-> Zero2, acceleration |-> Zero2]

RestKeepsVelocity(p) ==
    [position |-> [x |-> p.x, y |-> Threshold], velocity |-> velocity,
     acceleration |-> Zero2]

Rest(p) ==
    [position |-> [x |-> p.x, y |-> Threshold], velocity |-> Zero2, acceleration |-> Zero2]

\* Lines 93-104: the landing spawner request, issued at transform position p.
LandingSpawner(p) ==
    [count |-> 1, duration |-> LandingDuration, color |-> "WHITE",
     origin |-> [x |-> p.x, y |-> p.y + (radius * PIXEL_SCALE * 3) \div 2],
     attached |-> FALSE]

\* Lines 23-34: the spawner request of the constructor.
LaunchSpawner(p) ==
    [count |-> 1, duration |-> predictedAirTime, color |-> "ORANGE",
     origin |-> p, attached |-> TRUE]

\* Line 108: the destroy timer has started and not run out.
DestroyActive(timer) == 0 <= timer /\ timer <= destroyDuration

\* Line 111: (unsigned char)(255 * (destroyTimer / destroyDuration)). The float is
\* truncated toward zero; a truncated value outside 0..255 is undefined behaviour:
\* the build wraps it modulo 256 (x86) or saturates it (ARM).
DestroyAlpha(timer) ==
    LET q == TruncDiv(255 * timer, destroyDuration)
    IN  IF 0 <= q /\ q <= 255 THEN {q}
        ELSE {q % 256, IF q < 0 THEN 0 ELSE 255}

\* Lines 58-105: the physics step of Update on a projectile with transform (p, v, a),
\* flag isLanded and snapshot traj, as a record of what it stores and does.
PhysicsAt(p, v, a, isLanded, traj, dt) ==
    IF AboveGround(p)
    THEN LET t == TransformUpdate(p, v, a, dt)
             call == AirborneCallsUpdateTrajectory(isLanded)
         IN  [position |-> t.position, velocity |-> t.velocity,
              acceleration |-> a, landed |-> isLanded,
              trajectory |-> IF call THEN UpdateTrajectory(t.position, t.velocity, now)
                             ELSE traj,
              spawners |-> << >>,
              last |-> [op |-> "Update", branch |-> "air", trajectory |-> call]]
    ELSE IF UnderGround(p)
    THEN LET call == ContactCallsUpdateTrajectory(isLanded)
             snap == IF call THEN UpdateTrajectory(p, v, now)
                     ELSE traj
         IN  IF Fast(v)
             THEN LET b == Bounce(p, v)
                  IN  [position |-> b.position, velocity |-> b.velocity,
                       acceleration |-> a, landed |-> TRUE,
                       trajectory |-> snap,
                       spawners |-> << LandingSpawner(b.position) >>,
                       last |-> [op |-> "Update", branch |-> "bounce", trajectory |-> call]]
             ELSE LET r == Rest(p)
                  IN  [position |-> r.position, velocity |-> r.velocity,
                       acceleration |-> r.acceleration, landed |-> TRUE,
                       trajectory |-> snap,
                       spawners |-> << LandingSpawner(r.position) >>,
                       last |-> [op |-> "Update", branch |-> "rest", trajectory |-> call]]
    ELSE [position |-> p, velocity |-> v,
          acceleration |-> a, landed |-> isLanded,
          trajectory |-> traj,
          spawners |-> << >>,
          last |-> [op |-> "Update", branch |-> "none", trajectory |-> FALSE]]

\* The physics step of Update on this projectile.
Physics(dt) ==
    PhysicsAt(position, velocity, acceleration, landed, CurrentTrajectory, dt)

\* ------------------------------------------------------------------ state
\* Line 17: transform.acceleration = { 0, GRAVITY }.
InitialAccelerationZero == Zero2

InitialAcceleration == [x |-> 0, y |-> GRAVITY]

\* CannonBall::CannonBall, lines 11-35, and the initialisers of CannonBall.h.
Constructed(launch) ==
    /\ startPos = launch.position
    /\ startV = launch.velocity
    /\ position = launch.position
    /\ velocity = launch.velocity
    /\ acceleration = InitialAcceleration
    /\ airTime = 0
    /\ endPos = Zero2
    /\ endV = Zero2
    /\ controlPoint = [x |-> 0, y |-> 0, finite |-> TRUE]
    /\ landed = FALSE
    /\ showTrajectory \in BOOLEAN
    /\ trajectoryAlpha \in {0, AlphaOne}
    /\ destroyTimer = InactiveTimer
    /\ elapsed = 0
    /\ sinceDestroy = -1
    /\ colorA = OpaqueAlpha
    /\ now = 0
    /\ spawners = << LaunchSpawner(startPos) >>
    /\ last = [op |-> "CannonBall", branch |-> "none", trajectory |-> FALSE]
    /\ twin = [position |-> position, velocity |-> velocity,
               acceleration |-> acceleration, landed |-> landed,
               airTime |-> airTime, endPos |-> endPos, endV |-> endV,
               controlPoint |-> controlPoint, trajectoryAlpha |-> trajectoryAlpha,
               destroyTimer |-> destroyTimer, colorA |-> colorA, spawners |-> spawners]

Init == \E launch \in Launches : Constructed(launch)

\* CannonBall::Update(deltaTime), lines 52-113: what it does to this projectile.
UpdateFields(dt) ==
    LET ph == Physics(dt)
    IN  /\ trajectoryAlpha' = FadeTrajectoryAlpha(trajectoryAlpha, showTrajectory, dt)
        /\ position' = ph.position
        /\ velocity' = ph.velocity
        /\ acceleration' = ph.acceleration
        /\ landed' = ph.landed
        /\ airTime' = ph.trajectory.airTime
        /\ endPos' = ph.trajectory.endPos
        /\ endV' = ph.trajectory.endV
        /\ controlPoint' = ph.trajectory.controlPoint
        /\ spawners' = ph.spawners
        /\ last' = ph.last
        /\ IF DestroyActive(destroyTimer)
           THEN /\ destroyTimer' = destroyTimer - dt
                /\ colorA' \in DestroyAlpha(destroyTimer - dt)
           ELSE UNCHANGED <<destroyTimer, colorA>>
        /\ sinceDestroy' = IF sinceDestroy < 0 THEN sinceDestroy
                           ELSE clamp(sinceDestroy + dt, 0, destroyDuration)
        /\ UNCHANGED <<startPos, startV, showTrajectory, now>>

\* The host calls Update on this projectile, within the time bound.
Update(dt) ==
    /\ elapsed + dt <= MaxTime
    /\ elapsed' = elapsed + dt
    /\ UpdateFields(dt)
    /\ UNCHANGED twin

\* The host calls Update on this projectile for ever; the time passed is counted
\* up to MaxTime.
UpdateForever(dt) ==
    /\ elapsed' = clamp(elapsed + dt, 0, MaxTime)
    /\ UpdateFields(dt)
    /\ UNCHANGED twin

\* CannonBall::Update(deltaTime), lines 52-113, on the second projectile: the
\* values it may have after the call (same flag showTrajectory, same clock).
TwinAfterUpdate(dt) ==
    LET ph == PhysicsAt(twin.position, twin.velocity, twin.acceleration, twin.landed,
                        [airTime |-> twin.airTime, endPos |-> twin.endPos,
                         endV |-> twin.endV, controlPoint |-> twin.controlPoint], dt)
        fade == IF DestroyActive(twin.destroyTimer)
                THEN { [timer |-> twin.destroyTimer - dt, alpha |-> al] :
                         al \in DestroyAlpha(twin.destroyTimer - dt) }
                ELSE { [timer |-> twin.destroyTimer, alpha |-> twin.colorA] }
    IN  { [position |-> ph.position, velocity |-> ph.velocity,
           acceleration |-> ph.acceleration, landed |-> ph.landed,
           airTime |-> ph.trajectory.airTime, endPos |-> ph.trajectory.endPos,
           endV |-> ph.trajectory.endV, controlPoint |-> ph.trajectory.controlPoint,
           trajectoryAlpha |-> FadeTrajectoryAlpha(twin.trajectoryAlpha, showTrajectory, dt),
           destroyTimer |-> f.timer, colorA |-> f.alpha, spawners |-> ph.spawners] :
          f \in fade }

\* The host calls Update(dt) on both projectiles in the same frame.
UpdateBoth(dt) ==
    /\ elapsed + dt <= MaxTime
    /\ elapsed' = elapsed + dt
    /\ UpdateFields(dt)
    /\ twin' \in TwinAfterUpdate(dt)

\* CannonBall::Destroy(), lines 138-142.
DestroyAndStop ==
    /\ destroyTimer' = destroyDuration
    /\ velocity' = Zero2
    /\ sinceDestroy' = 0
    /\ spawners' = << >>
    /\ last' = [op |-> "Destroy", branch |-> "none", trajectory |-> FALSE]
    /\ UNCHANGED <<position, acceleration, startPos, startV, airTime, endPos, endV,
                   controlPoint, landed, showTrajectory, trajectoryAlpha, colorA, elapsed,
                   now, twin>>

DestroyAndHide ==
    /\ destroyTimer' = destroyDuration
    /\ colorA' = 0
    /\ sinceDestroy' = 0
    /\ spawners' = << >>
    /\ last' = [op |-> "Destroy", branch |-> "none", trajectory |-> FALSE]
    /\ UNCHANGED <<position, velocity, acceleration, startPos, startV, airTime, endPos,
                   endV, controlPoint, landed, showTrajectory, trajectoryAlpha, elapsed, now, twin>>

Destroy ==
    /\ destroyTimer' = destroyDuration
    /\ sinceDestroy' = 0
    /\ spawners' = << >>
    /\ last' = [op |-> "Destroy", branch |-> "none", trajectory |-> FALSE]
    /\ UNCHANGED <<position, velocity, acceleration, startPos, startV, airTime, endPos,
                   endV, controlPoint, landed, showTrajectory, trajectoryAlpha, colorA, elapsed, now, twin>>

\* The host writes the public flag showTrajectory between frames.
SetShowTrajectory(b) ==
    /\ showTrajectory # b
    /\ showTrajectory' = b
    /\ UNCHANGED <<position, velocity, acceleration, startPos, startV, airTime, endPos,
                   endV, controlPoint, landed, trajectoryAlpha, destroyTimer, elapsed, sinceDestroy,
                   colorA, now, spawners, last, twin>>

\* std::chrono::system_clock advances between calls.
ClockTick ==
    /\ now < MaxClock
    /\ now' = now + 1
    /\ UNCHANGED <<position, velocity, acceleration, startPos, startV, airTime, endPos,
                   endV, controlPoint, landed, showTrajectory, trajectoryAlpha,
                   destroyTimer, elapsed, sinceDestroy, colorA, spawners, last, twin>>

\* Lines 122 and 133: the alpha of the trajectory colour,
\* (unsigned char)min(trajectoryAlpha * 255, color.a).
TrajectoryColorAlpha ==
    LET a == TruncDiv(trajectoryAlpha * 255, AlphaOne)
    IN  IF a < colorA THEN a ELSE colorA

\* Lines 115-128: what Draw() hands to the renderer (positions cast to int pixels).
DrawCalls ==
    [circle |-> [x |-> TruncDiv(position.x, 100), y |-> TruncDiv(position.y, 100),
                 radius |-> radius * PIXEL_SCALE, alpha |-> colorA],
     text   |-> [seconds |-> airTime, y |-> TruncDiv(position.y - 10 * 100, 100),
                 alpha |-> TrajectoryColorAlpha]]

\* Lines 130-136: what DrawTrajectory() hands to the renderer.
DrawTrajectoryCalls ==
    [bezier |-> [from |-> startPos, to |-> endPos, control |-> controlPoint,
                 alpha |-> TrajectoryColorAlpha],
     marker |-> [at |-> endPos, along |-> endV, alpha |-> TrajectoryColorAlpha]]

\* CannonBall::Draw() const, lines 115-128.
DrawFading ==
    /\ last' = [op |-> "Draw", branch |-> "none", trajectory |-> FALSE, calls |-> DrawCalls]
    /\ spawners' = << >>
    /\ trajectoryAlpha' = FadeTrajectoryAlpha(trajectoryAlpha, showTrajectory, 1)
    /\ UNCHANGED <<position, velocity, acceleration, startPos, startV, airTime, endPos,
                   endV, controlPoint, landed, showTrajectory,
                   destroyTimer, elapsed, sinceDestroy, colorA, now, twin>>

Draw ==
    /\ last' = [op |-> "Draw", branch |-> "none", trajectory |-> FALSE, calls |-> DrawCalls]
    /\ spawners' = << >>
    /\ UNCHANGED <<position, velocity, acceleration, startPos, startV, airTime, endPos,
                   endV, controlPoint, landed, showTrajectory, trajectoryAlpha,
                   destroyTimer, elapsed, sinceDestroy, colorA, now, twin>>

\* CannonBall::DrawTrajectory() const, lines 130-136.
DrawTrajectory ==
    /\ last' = [op |-> "DrawTrajectory", branch |-> "none", trajectory |-> FALSE,
                calls |-> DrawTrajectoryCalls]
    /\ spawners' = << >>
    /\ UNCHANGED <<position, velocity, acceleration, startPos, startV, airTime, endPos,
                   endV, controlPoint, landed, showTrajectory, trajectoryAlpha,
                   destroyTimer, elapsed, sinceDestroy, colorA, now, twin>>

Next ==
    \/ \E dt \in DeltaTimes : Update(dt)
    \/ Destroy
    \/ \E b \in BOOLEAN : SetShowTrajectory(b)
    \/ ClockTick

Spec == Init /\ [][Next]_vars

\* The host loop with its draw calls.
NextDraw ==
    \/ \E dt \in DeltaTimes : Update(dt)
    \/ Destroy
    \/ \E b \in BOOLEAN : SetShowTrajectory(b)
    \/ ClockTick
    \/ Draw
    \/ DrawTrajectory

\* The projectiles constructed with the trajectory hidden.
DrawInit == Init /\ trajectoryAlpha = 0

DrawSpec == DrawInit /\ [][NextDraw]_vars

\* Two projectiles constructed identically and updated in the same frames;
\* Destroy() is called on the first only.
TwinNext ==
    \/ \E dt \in DeltaTimes : UpdateBoth(dt)
    \/ Destroy
    \/ \E b \in BOOLEAN : SetShowTrajectory(b)
    \/ ClockTick

TwinSpec == Init /\ [][TwinNext]_vars

\* A host that calls Update in every frame, for ever, on a projectile dropped
\* with the trajectory hidden, and toggles the trajectory at will.  Destroy()
\* and the clock are left out: neither writes showTrajectory or
\* trajectoryAlpha.
FairLaunches ==
    { [position |-> [x |-> 0, y |-> 202], velocity |-> [x |-> 0, y |-> 0]] }

FairInit ==
    /\ \E launch \in FairLaunches : Constructed(launch)
    /\ trajectoryAlpha = 0

FairNext ==
    \/ \E dt \in DeltaTimes : UpdateForever(dt)
    \/ \E b \in BOOLEAN : SetShowTrajectory(b)

FairSpec ==
    /\ FairInit
    /\ [][FairNext]_vars
    /\ WF_vars(\E dt \in DeltaTimes \ {0} : UpdateForever(dt))

\* ------------------------------------------------------------------ claims
\* The claims' notions, stated on the state.
AtOrUnderThreshold(p) == p.y >= Threshold

AtRest == velocity = Zero2 /\ acceleration = Zero2 /\ position.y = Threshold

\* C1: landed is a one-way latch: it never goes from true to false, it goes from
\* false to true only in an Update that finds the projectile at the contact
\* threshold, and every Update that finds the projectile there leaves it true.
LandedLatch ==
    [][ /\ landed => landed'
        /\ (~landed /\ landed') =>
              \E dt \in DeltaTimes : Update(dt) /\ AtOrUnderThreshold(position)
        /\ \A dt \in DeltaTimes :
              (Update(dt) /\ AtOrUnderThreshold(position)) => landed' ]_vars

\* C2: every Update that begins at or below the contact plane (including exactly
\* on it) runs the ground-contact step: landed is true on return and the bounce
\* or the rest has been applied; in particular an unlanded projectile exactly on
\* the plane with non-zero velocity is not left as it was.
EqualityIsGroundContact ==
    [][ \A dt \in DeltaTimes :
          (Update(dt) /\ AtOrUnderThreshold(position)) =>
              /\ landed'
              /\ IF Fast(velocity)
                 THEN /\ position' = Bounce(position, velocity).position
                      /\ velocity' = Bounce(position, velocity).velocity
                 ELSE /\ position' = Rest(position).position
                      /\ velocity' = Zero2
                      /\ acceleration' = Zero2
              /\ (position.y = Threshold /\ ~landed /\ velocity # Zero2) =>
                    <<position, velocity, acceleration>>' # <<position, velocity, acceleration>> ]_vars

\* C3: the rest state is absorbing: an Update that finds the projectile at or
\* under the contact threshold with speed <= 10 leaves velocity and acceleration
\* zero and position.y on the contact plane, and from then on no call changes
\* that or position.x.
RestIsAbsorbing ==
    [][ /\ \A dt \in DeltaTimes :
              (Update(dt) /\ AtOrUnderThreshold(position) /\ ~Fast(velocity)) => AtRest'
        /\ AtRest => (AtRest' /\ position'.x = position.x) ]_vars

\* C4: once the frame times passed to Update since Destroy() add up to
\* destroyDuration or more, color alpha is 0, and it stays 0.
FadedOutAfterDuration ==
    sinceDestroy >= destroyDuration => colorA = 0

\* The stored alpha is the one the current timer value gives: a fade is under way.
InFade == DestroyActive(destroyTimer) /\ colorA \in DestroyAlpha(destroyTimer)

\* C5: whenever Update assigns the destroy alpha, 255 * destroyTimer / destroyDuration
\* lies in [0,255] (the decremented timer lies in [0, destroyDuration]), and during
\* a fade the stored alpha does not increase from one Update to the next.
DestroyAlphaInRange ==
    [][ \A dt \in DeltaTimes :
          (Update(dt) /\ DestroyActive(destroyTimer)) =>
              /\ 0 <= 255 * destroyTimer'
              /\ 255 * destroyTimer' <= 255 * destroyDuration
              /\ InFade => colorA' <= colorA ]_vars

\* Update with a positive frame time leaves the transform as it is.
Frozen ==
    \A dt \in DeltaTimes \ {0} :
        /\ Physics(dt).position = position
        /\ Physics(dt).velocity = velocity
        /\ Physics(dt).acceleration = acceleration

\* C6: a projectile launched above the ground comes to rest; it is never stuck
\* in a state that is not the rest state and that Update no longer changes.
NeverStuckBeforeRest ==
    Frozen => AtRest

\* C7: on every bounce the speed becomes the speed before times elasticity (to
\* the resolution of one unit per component), the vertical velocity changes sign,
\* the horizontal velocity keeps its sign, and position.y is the contact plane
\* minus the bounce offset.
BounceReflects ==
    [][ \A dt \in DeltaTimes :
          (Update(dt) /\ UnderGround(position) /\ Fast(velocity)) =>
              /\ 2 * Abs(ElasticityDen * velocity'.x - ElasticityNum * velocity.x)
                    <= ElasticityDen
              /\ 2 * Abs(ElasticityDen * velocity'.y + ElasticityNum * velocity.y)
                    <= ElasticityDen
              /\ Abs(ElasticityDen * ElasticityDen * LengthSq(velocity')
                     - ElasticityNum * ElasticityNum * LengthSq(velocity))
                    <= ElasticityDen
                         * (ElasticityDen * (Abs(velocity'.x) + Abs(velocity'.y))
                            + ElasticityNum * (Abs(velocity.x) + Abs(velocity.y)))
              /\ Sign(velocity'.y) = -Sign(velocity.y)
              /\ Sign(velocity'.x) = Sign(velocity.x)
              /\ position'.y = Threshold - BounceOffset
              /\ position'.x = position.x ]_vars

\* A bounce has just sent a projectile that was moving right and down up again.
BouncedUp ==
    /\ last.op = "Update" /\ last.branch = "bounce"
    /\ velocity.y < 0 /\ velocity.x > 0
    /\ position.y = Threshold - BounceOffset

\* C8: once landed is true no call changes airTime, endPos, endV or controlPoint,
\* and no Update invokes UpdateTrajectory.
SnapshotFrozenOnceLanded ==
    [][ landed =>
          /\ UNCHANGED <<airTime, endPos, endV, controlPoint>>
          /\ \A dt \in DeltaTimes : Update(dt) => ~last'.trajectory ]_vars

\* A landed projectile is in the air again after a bounce, away from the frozen
\* end of the trajectory, later on the clock than the frozen air time.
AirborneAfterLanding ==
    /\ landed /\ last.op = "Update" /\ last.branch = "air"
    /\ position # endPos /\ velocity # endV /\ now > airTime

\* C9: every Update that begins at or under the contact threshold issues exactly
\* one landing spawner request (count 1, duration 0.1 s), also when the projectile
\* lies at rest; an Update that begins above the threshold issues none.
LandingBurstEveryGroundedFrame ==
    [][ \A dt \in DeltaTimes :
          Update(dt) =>
              IF AtOrUnderThreshold(position)
              THEN /\ Len(spawners') = 1
                   /\ spawners'[1].count = 1
                   /\ spawners'[1].duration = LandingDuration
                   /\ spawners'[1].color = "WHITE"
              ELSE spawners' = << >> ]_vars

\* C10: trajectoryAlpha is in [0,1] in every reachable state.
TrajectoryAlphaInRange ==
    0 <= trajectoryAlpha /\ trajectoryAlpha <= AlphaOne

\* The alpha has faded up for two ticks and, the flag toggled, down for one.
FadedUpThenDown ==
    /\ last.op = "Update" /\ ~showTrajectory
    /\ elapsed = 3 /\ trajectoryAlpha = 1

\* C11: a projectile does not remain under the ground: every Update that begins
\* with position.y under the contact plane ends with position.y on the plane
\* (rest) or the bounce offset above it (bounce), so no two consecutive Updates
\* end under the plane.
NeverStaysUnderGround ==
    [][ \A dt \in DeltaTimes :
          (Update(dt) /\ position.y > Threshold) =>
              /\ position'.y \in {Threshold, Threshold - BounceOffset}
              /\ landed' ]_vars

\* A landed projectile that fell under the plane again has been put back on it.
PutBackOnPlane ==
    /\ last.op = "Update" /\ last.branch = "rest" /\ ~last.trajectory
    /\ landed /\ position.y = Threshold

\* C12: Destroy() only arms the fade: destroyTimer becomes destroyDuration;
\* position, velocity, acceleration, landed, the trajectory snapshot,
\* trajectoryAlpha and color keep their values; no particle request is issued.
DestroyOnlyArmsFade ==
    [][ (last.op # "Destroy" /\ last'.op = "Destroy") =>
          /\ destroyTimer' = destroyDuration
          /\ UNCHANGED <<position, velocity, acceleration, landed, airTime, endPos, endV,
                         controlPoint, startPos, startV, trajectoryAlpha, showTrajectory,
                         colorA>>
          /\ spawners' = << >> ]_vars

\* Destroy() has been called again in the middle of a fade, after the landing.
RearmedDuringFade ==
    /\ last.op = "Destroy" /\ destroyTimer = destroyDuration
    /\ landed /\ colorA < OpaqueAlpha /\ colorA > 0

\* C13: an Update with dt > 0 that begins above the contact threshold leaves the
\* vertical velocity strictly greater (gravity is added) and the horizontal
\* velocity unchanged (no drag).
GravityAccumulatesInAir ==
    [][ \A dt \in DeltaTimes \ {0} :
          (Update(dt) /\ position.y < Threshold) =>
              /\ velocity'.y > velocity.y
              /\ velocity'.x = velocity.x ]_vars

\* The projectile is in the air after a bounce and falling again.
FallingAfterBounce ==
    /\ last.op = "Update" /\ last.branch = "air"
    /\ landed /\ velocity.y > 0 /\ position.y < Threshold

\* C16: acceleration is (0, GRAVITY) or (0,0), and zero acceleration implies
\* landed, zero velocity and position.y on the contact plane.
AccelerationGravityOrRest ==
    /\ acceleration \in {[x |-> 0, y |-> GRAVITY], Zero2}
    /\ acceleration = Zero2 =>
          (landed /\ velocity = Zero2 /\ position.y = Threshold)

\* Update has been called on a projectile lying at rest.
UpdatedAtRest ==
    /\ last.op = "Update" /\ last.branch = "none"
    /\ acceleration = Zero2 /\ landed

\* C14: Draw() and DrawTrajectory() leave every field of the projectile unchanged
\* and issue no particle request, in any state and any interleaving with Update
\* and Destroy.
DrawIsReadOnly ==
    [][ (last'.op \in {"Draw", "DrawTrajectory"} /\ last' # last) =>
          /\ UNCHANGED <<position, velocity, acceleration, landed, airTime, endPos, endV,
                         controlPoint, startPos, startV, trajectoryAlpha, showTrajectory,
                         destroyTimer, colorA>>
          /\ spawners' = << >> ]_vars

\* The trajectory of a landed projectile has been drawn in the middle of its fade.
DrawnWhileFading ==
    /\ last.op = "DrawTrajectory" /\ landed
    /\ DestroyActive(destroyTimer) /\ colorA < OpaqueAlpha
    /\ last.calls.bezier.alpha < OpaqueAlpha

\* trajectoryAlpha moved toward the target by dt, saturating at the target.
TowardTarget(alpha, show, dt) ==
    IF show
    THEN (IF alpha + dt < AlphaOne THEN alpha + dt ELSE AlphaOne)
    ELSE (IF alpha - dt > 0 THEN alpha - dt ELSE 0)

\* C15: every Update(dt) moves trajectoryAlpha toward its target (1 if
\* showTrajectory, else 0) by exactly dt, saturating at the target, and leaves it
\* unchanged at the target; if showTrajectory is held constant and Update keeps
\* being called with positive dt, trajectoryAlpha eventually equals the target
\* and stays there.
FadeReachesTarget ==
    /\ [][ \A dt \in DeltaTimes :
             UpdateForever(dt) =>
                 trajectoryAlpha' = TowardTarget(trajectoryAlpha, showTrajectory, dt) ]_vars
    /\ <>[]showTrajectory => <>[](trajectoryAlpha = AlphaOne)
    /\ <>[](~showTrajectory) => <>[](trajectoryAlpha = 0)

\* The trajectory, hidden at construction, has faded in completely.
FadedInFully ==
    /\ last.op = "Update" /\ showTrajectory /\ trajectoryAlpha = AlphaOne

\* C17: the destroy fade does not influence the physics: of two projectiles
\* constructed identically and updated with the same frame times, Destroy()
\* called on the first only, position, velocity, acceleration, landed, the
\* trajectory snapshot, trajectoryAlpha and, after every Update, the landing
\* particle requests are the same; only destroyTimer and color alpha may differ.
DestroyDoesNotInfluencePhysics ==
    /\ position = twin.position
    /\ velocity = twin.velocity
    /\ acceleration = twin.acceleration
    /\ landed = twin.landed
    /\ endPos = twin.endPos
    /\ endV = twin.endV
    /\ airTime = twin.airTime
    /\ controlPoint = twin.controlPoint
    /\ trajectoryAlpha = twin.trajectoryAlpha
    /\ last.op = "Update" => spawners = twin.spawners

\* The fading projectile has bounced in step with the one that is not fading.
BouncedWhileFading ==
    /\ last.op = "Update" /\ last.branch = "bounce"
    /\ twin.landed /\ Len(twin.spawners) = 1
    /\ DestroyActive(destroyTimer) /\ destroyTimer # twin.destroyTimer
    /\ colorA # twin.colorA

====
